---------------------------- MODULE Spec2Model ----------------------------
(***************************************************************************)
(* Monte Carlo option pricing tool (src/MonteCarlo.py).                    *)
(*                                                                         *)
(* Numbers.  A Python/numpy float is carried as an exact rational          *)
(* [num, den] in lowest terms with den > 0; den = 0 marks the special      *)
(* values: num = 0 is NaN, num = 1 is +inf, num = -1 is -inf.  Finite      *)
(* arithmetic is exact (no rounding).  np.exp is evaluated on whole        *)
(* exponents, with logarithms carried in units of ln 2: np.exp of k units  *)
(* is 2^k, which a double holds for -1074 <= k <= 1023; above that range   *)
(* np.exp overflows to +inf, below it it underflows to 0.  np.sqrt is      *)
(* evaluated on rationals whose numerator and denominator are perfect      *)
(* squares.  The inputs enumerated by the specifications below stay on     *)
(* that lattice, with exponents either small or far outside the range.     *)
(*                                                                         *)
(* Random generator.  The process-wide generator np.random is the value    *)
(* rng = [seed, pos]: seed is the table of the outputs it yields (period   *)
(* RngPeriod), pos the number of outputs consumed so far.                  *)
(***************************************************************************)
EXTENDS Integers, Sequences, FiniteSets, TLC

VARIABLES
    session_state,      \* st.session_state: key -> value
    show_sample_paths,  \* the sidebar checkbox (keyless widget)
    event,              \* the widget interaction that asked for this run
    pc,                 \* position of the script run
    S, K, T, r, sigma, option_type, num_paths,   \* the script's parameters
    rng,                \* np.random, the process-wide generator
    price, S_T, payoff, \* results of monte_carlo_option_price
    num_steps, num_sample_paths, dt, paths, i,   \* path simulation
    err,                \* the exception that ended the run, or "none"
    twin                \* a second run of the script, from the same rng

vars == <<session_state, show_sample_paths, event, pc, S, K, T, r, sigma,
          option_type, num_paths, rng, price, S_T, payoff, num_steps,
          num_sample_paths, dt, paths, i, err, twin>>

---------------------------------------------------------------------------
(* Bounds of the model *)

MaxN == 2          \* largest valid num_paths the pricer is run with
MaxSteps == 2      \* largest num_steps of the path simulation
MaxPaths == 2      \* largest num_sample_paths
RngPeriod == 2     \* period of the generator's output table
MaxStepsRoot == 2  \* SpecScript: num_steps is a square up to this root

ZVals == {-1, 0, 1}   \* outputs of the generator

---------------------------------------------------------------------------
(* Arithmetic on floats *)

RECURSIVE GCD(_, _)
GCD(a, b) == IF b = 0 THEN a ELSE GCD(b, a % b)

Abs(n) == IF n < 0 THEN -n ELSE n

Sign(n) == IF n > 0 THEN 1 ELSE IF n < 0 THEN -1 ELSE 0

NaN == [num |-> 0, den |-> 0]

PosInf == [num |-> 1, den |-> 0]

NegInf == [num |-> -1, den |-> 0]

IsNaN(x) == x.den = 0 /\ x.num = 0

IsInf(x) == x.den = 0 /\ x.num # 0

IsFinite(x) == x.den # 0

RNorm(n, d) ==
    LET g == GCD(Abs(n), d)
    IN  [num |-> n \div g, den |-> d \div g]

R(n) == [num |-> n, den |-> 1]

Frac(n, d) == RNorm(n, d)

\* x * y: inf * 0 is NaN
RMul(x, y) ==
    IF IsNaN(x) \/ IsNaN(y) THEN NaN
    ELSE IF IsInf(x) \/ IsInf(y)
    THEN [num |-> Sign(x.num) * Sign(y.num), den |-> 0]
    ELSE RNorm(x.num * y.num, x.den * y.den)

\* x + y: inf + (-inf) is NaN
RAdd(x, y) ==
    IF IsNaN(x) \/ IsNaN(y) THEN NaN
    ELSE IF IsInf(x) /\ IsInf(y) THEN (IF x = y THEN x ELSE NaN)
    ELSE IF IsInf(x) THEN x
    ELSE IF IsInf(y) THEN y
    ELSE RNorm(x.num * y.den + y.num * x.den, x.den * y.den)

RNeg(x) == [num |-> -x.num, den |-> x.den]

RSub(x, y) == RAdd(x, RNeg(y))

\* x / n for a number x and a whole n > 0
RDivInt(x, n) == IF IsFinite(x) THEN RNorm(x.num, x.den * n) ELSE x

\* comparisons are false on NaN, as in IEEE 754
RLess(x, y) ==
    /\ ~IsNaN(x) /\ ~IsNaN(y)
    /\ IF IsInf(x) \/ IsInf(y)
       THEN x # y /\ (x = NegInf \/ y = PosInf)
       ELSE x.num * y.den < y.num * x.den

RLeq(x, y) == ~IsNaN(x) /\ ~IsNaN(y) /\ (x = y \/ RLess(x, y))

IsPos(x) == x.num > 0

IsNonNeg(x) == ~IsNaN(x) /\ x.num >= 0

IsInt(x) == x.den = 1

\* np.maximum: propagates NaN
RMax(x, y) ==
    IF IsNaN(x) \/ IsNaN(y) THEN NaN
    ELSE IF RLess(x, y) THEN y ELSE x

ISqrt(n) == CHOOSE k \in 0..n : k * k = n

\* np.sqrt: NaN (with a warning, no exception) on a negative argument
Sqrt(x) ==
    IF x.num < 0 \/ IsNaN(x) THEN NaN
    ELSE IF IsInf(x) THEN PosInf
    ELSE [num |-> ISqrt(x.num), den |-> ISqrt(x.den)]

\* the whole exponents k for which 2^k is a double other than 0 and inf
InExpRange(x) == IsFinite(x) /\ x.num >= -1074 /\ x.num <= 1023

\* np.exp on a whole exponent, in units of ln 2: +inf on overflow (with a
\* warning, no exception), 0 on underflow
Exp(x) ==
    IF IsNaN(x) THEN NaN
    ELSE IF x = PosInf THEN PosInf
    ELSE IF x = NegInf THEN R(0)
    ELSE IF x.num > 1023 THEN PosInf
    ELSE IF x.num < -1074 THEN R(0)
    ELSE IF x.num >= 0 THEN [num |-> 2 ^ x.num, den |-> 1]
    ELSE [num |-> 1, den |-> 2 ^ (-x.num)]

RECURSIVE SumTo(_, _)
SumTo(a, n) == IF n = 0 THEN R(0) ELSE RAdd(SumTo(a, n - 1), a[n])

\* np.mean: NaN (with a warning, no exception) on an empty array
Mean(a) == IF Len(a) = 0 THEN NaN ELSE RDivInt(SumTo(a, Len(a)), Len(a))

---------------------------------------------------------------------------
(* np.random.standard_normal(size) on the process-wide generator g.        *)
(* A non-integer size raises TypeError, a negative one ValueError; neither *)
(* consumes output.  Otherwise the next size outputs are returned in order *)
(* and the generator advances by size.                                     *)

standard_normal(size, g) ==
    IF ~IsInt(size) THEN [err |-> "TypeError", Z |-> <<>>, rng |-> g]
    ELSE IF size.num < 0 THEN [err |-> "ValueError", Z |-> <<>>, rng |-> g]
    ELSE [err |-> "none",
          Z   |-> [m \in 1..size.num |->
                      R(g.seed[(g.pos + m - 1) % RngPeriod])],
          rng |-> [g EXCEPT !.pos = g.pos + size.num]]

Seeds == [0..(RngPeriod - 1) -> ZVals]

---------------------------------------------------------------------------
(* monte_carlo_option_price (lines 20-33) *)

\* (r - 0.5 * sigma**2) * T + sigma * np.sqrt(T) * Z, one draw; also the
\* exponent of line 129, with dt for T
LogReturn(t, rr, sg, z) ==
    RAdd(RMul(RSub(rr, RMul(Frac(1, 2), RMul(sg, sg))), t),
         RMul(RMul(sg, Sqrt(t)), z))

\* S * np.exp((r - 0.5 * sigma**2) * T + sigma * np.sqrt(T) * Z), one draw
TerminalPrice(s, t, rr, sg, z) == RMul(s, Exp(LogReturn(t, rr, sg, z)))

\* Payoffs without the floor at zero
PayoffsNoFloor(kind, ST, k) ==
    IF kind = "call"
    THEN [m \in 1..Len(ST) |-> RSub(ST[m], k)]
    ELSE [m \in 1..Len(ST) |-> RSub(k, ST[m])]

\* Payoffs with an explicit put branch and nothing for any other kind
PayoffsByKind(kind, ST, k) ==
    IF kind = "call"
    THEN [m \in 1..Len(ST) |-> RMax(RSub(ST[m], k), R(0))]
    ELSE IF kind = "put"
    THEN [m \in 1..Len(ST) |-> RMax(RSub(k, ST[m]), R(0))]
    ELSE [m \in 1..Len(ST) |-> R(0)]

\* lines 26-29: the payoff of every terminal price
Payoffs(kind, ST, k) ==
    IF kind = "call"
    THEN [m \in 1..Len(ST) |-> RMax(RSub(ST[m], k), R(0))]
    ELSE [m \in 1..Len(ST) |-> RMax(RSub(k, ST[m]), R(0))]

\* The pricer estimating from a second sample instead of the returned one
PricerRedrawing(s, k, t, rr, sg, kind, n, g) ==
    LET draw  == standard_normal(n, g)
        ST    == [m \in 1..Len(draw.Z) |->
                     TerminalPrice(s, t, rr, sg, draw.Z[m])]
        again == standard_normal(n, draw.rng)
        ST2   == [m \in 1..Len(again.Z) |->
                     TerminalPrice(s, t, rr, sg, again.Z[m])]
        pay   == Payoffs(kind, ST2, k)
    IN  IF draw.err # "none"
        THEN [err |-> draw.err, price |-> NaN, S_T |-> <<>>,
              payoff |-> <<>>, rng |-> draw.rng]
        ELSE [err |-> "none",
              price |-> RMul(Exp(RNeg(RMul(rr, t))), Mean(pay)),
              S_T |-> ST, payoff |-> pay, rng |-> again.rng]

\* The pricer failing fast on a non-positive S, K, T or sigma
PricerValidating(s, k, t, rr, sg, kind, n, g) ==
    LET draw == standard_normal(n, g)
        ST   == [m \in 1..Len(draw.Z) |->
                    TerminalPrice(s, t, rr, sg, draw.Z[m])]
        pay  == Payoffs(kind, ST, k)
    IN  IF ~IsPos(s) \/ ~IsPos(k) \/ ~IsPos(t) \/ ~IsPos(sg)
        THEN [err |-> "ValueError", price |-> NaN, S_T |-> <<>>,
              payoff |-> <<>>, rng |-> g]
        ELSE IF draw.err # "none"
        THEN [err |-> draw.err, price |-> NaN, S_T |-> <<>>,
              payoff |-> <<>>, rng |-> draw.rng]
        ELSE [err |-> "none",
              price |-> RMul(Exp(RNeg(RMul(rr, t))), Mean(pay)),
              S_T |-> ST, payoff |-> pay, rng |-> draw.rng]

monte_carlo_option_price(s, k, t, rr, sg, kind, n, g) ==
    LET draw == standard_normal(n, g)
        Z    == draw.Z
        ST   == [m \in 1..Len(Z) |-> TerminalPrice(s, t, rr, sg, Z[m])]
        pay  == Payoffs(kind, ST, k)
        pr   == RMul(Exp(RNeg(RMul(rr, t))), Mean(pay))
    IN  IF draw.err # "none"
        THEN [err |-> draw.err, price |-> NaN, S_T |-> <<>>,
              payoff |-> <<>>, rng |-> draw.rng]
        ELSE [err |-> "none", price |-> pr, S_T |-> ST,
              payoff |-> pay, rng |-> draw.rng]

---------------------------------------------------------------------------
(* Values a specification leaves unused *)

NoSession == <<>>

NoGrid == <<>>

NoTwin == [pc |-> "off"]

IdleApp ==
    /\ session_state = NoSession
    /\ show_sample_paths = FALSE
    /\ event = "none"

IdlePaths ==
    /\ num_steps = 0
    /\ num_sample_paths = 0
    /\ dt = R(0)
    /\ paths = NoGrid
    /\ i = 0

IdleResults ==
    /\ price = R(0)
    /\ S_T = <<>>
    /\ payoff = <<>>
    /\ err = "none"

---------------------------------------------------------------------------
(* SpecPricer: one call of monte_carlo_option_price with arguments any     *)
(* caller may pass, valid or not.                                          *)

PricerS == {R(-1), R(0), R(1), R(3)}

PricerK == {R(0), R(2)}

PricerT == {R(-1), R(0), R(1), R(4)}

PricerR == {R(0), R(2), R(2000)}

PricerSigma == {R(-2), R(0), R(2)}

PricerKinds == {"call", "put", "straddle"}

PricerN == {Frac(5, 2)} \cup {R(n) : n \in (-1)..MaxN}

PricerInit ==
    /\ IdleApp /\ IdlePaths /\ IdleResults
    /\ twin = NoTwin
    /\ pc = "call"
    /\ S \in PricerS /\ K \in PricerK /\ T \in PricerT
    /\ r \in PricerR /\ sigma \in PricerSigma
    /\ option_type \in PricerKinds
    /\ num_paths \in PricerN
    /\ rng \in [seed : Seeds, pos : {0}]

\* line 104: price, S_T = monte_carlo_option_price(...)
CallPricer ==
    /\ pc = "call"
    /\ LET res == monte_carlo_option_price(S, K, T, r, sigma, option_type,
                                           num_paths, rng)
       IN  /\ rng' = res.rng
           /\ err' = res.err
           /\ IF res.err = "none"
              THEN /\ pc' = "returned"
                   /\ price' = res.price
                   /\ S_T' = res.S_T
                   /\ payoff' = res.payoff
              ELSE /\ pc' = "raised"
                   /\ UNCHANGED <<price, S_T, payoff>>
    /\ UNCHANGED <<session_state, show_sample_paths, event,
                   S, K, T, r, sigma,
                   option_type, num_paths, num_steps, num_sample_paths,
                   dt, paths, i, twin>>

PricerNext == CallPricer

SpecPricer == PricerInit /\ [][PricerNext]_vars

---------------------------------------------------------------------------
(* Claims about monte_carlo_option_price, under SpecPricer *)

ValidN == IsInt(num_paths) /\ num_paths.num >= 1

ValidParams ==
    IsPos(S) /\ IsPos(K) /\ IsPos(T) /\ IsPos(sigma) /\ ValidN

Discount == Exp(RNeg(RMul(r, T)))

CallPayoffOf(st) == [m \in 1..Len(st) |-> RMax(RSub(st[m], K), R(0))]

PutPayoffOf(st) == [m \in 1..Len(st) |-> RMax(RSub(K, st[m]), R(0))]

\* np.exp neither overflows nor underflows in the call, whatever the draws
PricerInRange ==
    /\ InExpRange(RNeg(RMul(r, T)))
    /\ \A z \in ZVals : InExpRange(LogReturn(T, r, sigma, R(z)))

\* C1 as stated: with valid parameters (S, K, T, sigma > 0, N >= 1) and
\* kind call or put, every per-sample payoff is >= 0 and the returned
\* estimate is >= 0, whatever the draws.
C1_AlwaysNonNegative ==
    (pc # "call" /\ ValidParams /\ option_type \in {"call", "put"}) =>
        /\ pc = "returned"
        /\ \A m \in 1..Len(payoff) : IsNonNeg(payoff[m])
        /\ IsNonNeg(price)

\* C1 amended: with valid parameters and kind call or put the call
\* returns and every per-sample payoff is >= 0; the estimate is >= 0 and
\* finite when np.exp neither overflows nor underflows, and is never
\* negative: outside that range it is >= 0 or NaN.
C1_NonNegativeInRange ==
    (pc # "call" /\ ValidParams /\ option_type \in {"call", "put"}) =>
        /\ pc = "returned"
        /\ Len(payoff) = num_paths.num
        /\ \A m \in 1..Len(payoff) : IsNonNeg(payoff[m])
        /\ PricerInRange => (IsNonNeg(price) /\ IsFinite(price))
        /\ IsNonNeg(price) \/ IsNaN(price)

\* a valid call whose sample has a path floored at zero and one in the money
C1_Witness ==
    /\ pc = "returned" /\ ValidParams /\ option_type \in {"call", "put"}
    /\ PricerInRange
    /\ \E m \in 1..Len(payoff) : payoff[m] = R(0) /\ S_T[m] # K
    /\ IsPos(price)

\* C2: the returned sample has exactly N entries, entry m being the
\* terminal price of the m-th draw; the estimate is the discount factor
\* times the mean payoff of exactly those entries, and the generator has
\* advanced by N draws only.
C2_SampleAndEstimate ==
    (pc = "returned" /\ option_type \in {"call", "put"}) =>
        /\ Len(S_T) = num_paths.num
        /\ \A m \in 1..Len(S_T) :
              S_T[m] = TerminalPrice(S, T, r, sigma,
                                     R(rng.seed[(m - 1) % RngPeriod]))
        /\ price = RMul(Discount,
                        Mean(IF option_type = "call" THEN CallPayoffOf(S_T)
                                                     ELSE PutPayoffOf(S_T)))
        /\ rng.pos = num_paths.num

\* a returned sample of two different terminal prices with a positive estimate
C2_Witness ==
    /\ pc = "returned" /\ option_type \in {"call", "put"}
    /\ Len(S_T) = MaxN
    /\ S_T[1] # S_T[MaxN]
    /\ IsPos(price)

InvalidParams == ~ValidParams

\* C5 as stated: with invalid parameters the call never ends in a raised
\* error; it returns a (price, sample) pair.
C5_NeverRaises ==
    (pc # "call" /\ InvalidParams) => (pc = "returned" /\ err = "none")

\* C5 amended: with a non-positive S, K, T or sigma, or N = 0, the call
\* returns a pair with a sample of N entries; with a negative N it ends in
\* ValueError and with a non-integer N in TypeError, raised by the draw.
C5_RaisesOnlyOnBadCount ==
    (pc # "call" /\ InvalidParams) =>
        /\ (IsInt(num_paths) /\ num_paths.num >= 0) =>
              (pc = "returned" /\ err = "none" /\ Len(S_T) = num_paths.num)
        /\ (IsInt(num_paths) /\ num_paths.num < 0) =>
              (pc = "raised" /\ err = "ValueError")
        /\ ~IsInt(num_paths) =>
              (pc = "raised" /\ err = "TypeError")

\* a negative maturity priced without complaint: the estimate is NaN
C5_Witness ==
    /\ pc = "returned" /\ InvalidParams
    /\ T = R(-1) /\ IsPos(S) /\ IsPos(K) /\ IsPos(sigma)
    /\ num_paths = R(1)
    /\ IsNaN(price) /\ IsNaN(S_T[1])

\* C10: any option_type other than 'call' is priced as a put: the payoff
\* is max(K - S_T, 0) and the call returns, with no unknown-kind error.
C10_ElseIsPut ==
    (pc # "call" /\ option_type # "call"
       /\ IsInt(num_paths) /\ num_paths.num >= 0) =>
        /\ pc = "returned" /\ err = "none"
        /\ payoff = PutPayoffOf(S_T)
        /\ price = RMul(Discount, Mean(PutPayoffOf(S_T)))

\* an unknown kind priced as a put with a positive estimate
C10_Witness ==
    /\ pc = "returned" /\ option_type = "straddle"
    /\ ValidParams
    /\ payoff = PutPayoffOf(S_T)
    /\ IsPos(price)

---------------------------------------------------------------------------
(* Path simulation (lines 122-129) *)

\* np.exp((r - 0.5 * sigma**2) * dt + sigma * np.sqrt(dt) * Z), one draw
StepFactor(rr, sg, d, z) == Exp(LogReturn(d, rr, sg, z))

\* np.zeros((num_steps + 1, num_sample_paths)); rows 0..steps, columns 1..n
Zeros(steps, n) == [row \in 0..steps |-> [j \in 1..n |-> R(0)]]

\* The set-up guarding the division: no step, no time increment
SetupGuarded(s, t, steps, n) ==
    [err   |-> "none",
     dt    |-> IF steps = 0 THEN R(0) ELSE RDivInt(t, steps),
     paths |-> [Zeros(steps, n) EXCEPT ![0] = [j \in 1..n |-> s]]]

\* lines 122-126: dt = T / num_steps on a Python float raises when
\* num_steps is 0; then the grid is allocated and row 0 set to S.
SetupPaths(s, t, steps, n) ==
    IF steps = 0
    THEN [err |-> "ZeroDivisionError", dt |-> R(0), paths |-> NoGrid]
    ELSE [err   |-> "none",
          dt    |-> RDivInt(t, steps),
          paths |-> [Zeros(steps, n) EXCEPT ![0] = [j \in 1..n |-> s]]]

\* The iteration writing the row it reads
IteratePathsInPlace(grid, row, rr, sg, d, n, g) ==
    LET draw == standard_normal(R(n), g)
    IN  [paths |-> [grid EXCEPT ![row - 1] =
                       [j \in 1..n |->
                           RMul(grid[row - 1][j],
                                StepFactor(rr, sg, d, draw.Z[j]))]],
         rng   |-> draw.rng]

\* The iteration without the exponential
IteratePathsLinear(grid, row, rr, sg, d, n, g) ==
    LET draw == standard_normal(R(n), g)
    IN  [paths |-> [grid EXCEPT ![row] =
                       [j \in 1..n |->
                           RMul(grid[row - 1][j],
                                LogReturn(d, rr, sg, draw.Z[j]))]],
         rng   |-> draw.rng]

\* lines 128-129: one iteration of the loop, for row i
IteratePaths(grid, row, rr, sg, d, n, g) ==
    LET draw == standard_normal(R(n), g)
    IN  [paths |-> [grid EXCEPT ![row] =
                       [j \in 1..n |->
                           RMul(grid[row - 1][j],
                                StepFactor(rr, sg, d, draw.Z[j]))]],
         rng   |-> draw.rng]

\* lines 122-126
BeginPaths ==
    /\ pc = "paths"
    /\ LET res == SetupPaths(S, T, num_steps, num_sample_paths)
       IN  /\ err' = res.err
           /\ dt' = res.dt
           /\ paths' = res.paths
           /\ i' = 1
           /\ pc' = IF res.err # "none" THEN "raised"
                    ELSE IF 1 <= num_steps THEN "loop" ELSE "done"
    /\ UNCHANGED <<session_state, show_sample_paths, event,
                   S, K, T, r, sigma,
                   option_type, num_paths, rng, price, S_T, payoff,
                   num_steps, num_sample_paths, twin>>

\* lines 127-129: the body for the current i; i then moves on, and the
\* loop ends after the body for i = num_steps
StepPaths ==
    /\ pc = "loop"
    /\ i <= num_steps
    /\ LET res == IteratePaths(paths, i, r, sigma, dt, num_sample_paths, rng)
       IN  /\ paths' = res.paths
           /\ rng' = res.rng
    /\ i' = i + 1
    /\ pc' = IF i = num_steps THEN "done" ELSE "loop"
    /\ UNCHANGED <<session_state, show_sample_paths, event,
                   S, K, T, r, sigma,
                   option_type, num_paths, price, S_T, payoff, num_steps,
                   num_sample_paths, dt, err, twin>>

---------------------------------------------------------------------------
(* SpecPaths: the path simulation for any step and path counts (the        *)
(* script fixes num_steps = 100 and num_sample_paths = 5, lines 122 and    *)
(* 124), with S, T, r, sigma valid or not.  T is a whole number of steps,  *)
(* so that dt has an exact square root.                                    *)

PathsS == {R(-1), R(0), R(3)}

PathsTau == {-1, 0, 1}

PathsR == {R(0), R(2), R(-2000)}

PathsSigma == {R(-2), R(0), R(2)}

PathsInit ==
    /\ IdleApp /\ IdleResults
    /\ twin = NoTwin
    /\ pc = "paths"
    /\ K = R(0) /\ option_type = "call" /\ num_paths = R(0)
    /\ S \in PathsS /\ r \in PathsR /\ sigma \in PathsSigma
    /\ num_steps \in 0..MaxSteps
    /\ num_sample_paths \in 0..MaxPaths
    /\ \E tau \in PathsTau :
          T = R(tau * (IF num_steps = 0 THEN 1 ELSE num_steps))
    /\ dt = R(0) /\ paths = NoGrid /\ i = 0
    /\ rng \in [seed : Seeds, pos : {0}]

PathsNext == BeginPaths \/ StepPaths

SpecPaths == PathsInit /\ [][PathsNext]_vars

---------------------------------------------------------------------------
(* Claims about the path simulation, under SpecPaths *)

InLoop == pc \in {"loop", "done"}

Factors == {StepFactor(r, sigma, dt, R(z)) : z \in ZVals}

\* C3: for steps >= 1 and path_count >= 1 the grid has exactly steps+1
\* rows and path_count columns, and row 0 equals S in every column at
\* every point of the loop and after it.
C3_ShapeAndRowZero ==
    (InLoop /\ num_steps >= 1 /\ num_sample_paths >= 1) =>
        /\ DOMAIN paths = 0..num_steps
        /\ \A row \in DOMAIN paths : Len(paths[row]) = num_sample_paths
        /\ \A j \in 1..num_sample_paths : paths[0][j] = S

\* a finished grid of full size whose last row has moved away from S
C3_Witness ==
    /\ pc = "done"
    /\ num_steps = MaxSteps /\ num_sample_paths = MaxPaths
    /\ paths[0][1] = S
    /\ paths[num_steps][1] # S
    /\ paths[num_steps][1] # paths[num_steps][MaxPaths]

PathsInRange == \A z \in ZVals : InExpRange(LogReturn(dt, r, sigma, R(z)))

RowsDone ==
    (InLoop /\ IsPos(S) /\ IsNonNeg(T) /\ PathsInRange) =>
        /\ i \in 1..(num_steps + 1)
        /\ pc = "done" <=> i = num_steps + 1
        /\ \A row \in 1..(i - 1) : \A j \in 1..num_sample_paths :
              /\ \E f \in Factors :
                    IsPos(f) /\ paths[row][j] = RMul(paths[row - 1][j], f)
              /\ IsPos(paths[row][j])
        /\ \A row \in i..num_steps : \A j \in 1..num_sample_paths :
              paths[row][j] = R(0)

RowsInOrder ==
    (pc = "loop" /\ IsPos(S) /\ IsNonNeg(T) /\ PathsInRange) =>
        /\ i' = i + 1
        /\ DOMAIN paths' = DOMAIN paths
        /\ \A row \in DOMAIN paths : row # i => paths'[row] = paths[row]

C6_DegenerateGridsNeverFail ==
    (pc # "paths" /\ (num_steps = 0 \/ num_sample_paths = 0)) =>
        /\ err = "none"
        /\ DOMAIN paths = 0..num_steps
        /\ \A row \in DOMAIN paths : Len(paths[row]) = num_sample_paths
        /\ \A j \in 1..num_sample_paths : paths[0][j] = S

\* C6 amended: path_count = 0 with steps >= 1 does not fail and gives a
\* grid of steps+1 rows of zero columns; steps = 0 fails: the division
\* dt = T / num_steps raises ZeroDivisionError before any grid is built.
C6_ZeroStepsRaises ==
    /\ (pc # "paths" /\ num_sample_paths = 0 /\ num_steps >= 1) =>
          /\ err = "none" /\ InLoop
          /\ DOMAIN paths = 0..num_steps
          /\ \A row \in DOMAIN paths : paths[row] = <<>>
    /\ (pc # "paths" /\ num_steps = 0) =>
          /\ pc = "raised" /\ err = "ZeroDivisionError"
          /\ paths = NoGrid

\* a finished grid of zero width
C6_Witness ==
    /\ pc = "done" /\ num_sample_paths = 0 /\ num_steps = MaxSteps
    /\ DOMAIN paths = 0..MaxSteps
    /\ paths[MaxSteps] = <<>>

---------------------------------------------------------------------------
(* The sidebar (lines 8-15, 47-58) *)

\* st.session_state[key] = v
Assign(ss, key, v) ==
    [x \in DOMAIN ss \cup {key} |-> IF x = key THEN v ELSE ss[x]]

\* lines 49-53, 55: st.slider(label, min, max, value, key); a float slider
\* moves in steps of 0.01, the path-count slider in steps of 1000
Sliders ==
    [S_slider         |-> [min |-> R(50), max |-> R(150), value |-> R(100)],
     K_slider         |-> [min |-> R(50), max |-> R(150), value |-> R(100)],
     T_slider         |-> [min |-> Frac(1, 10), max |-> R(5), value |-> R(1)],
     r_slider         |-> [min |-> R(0), max |-> Frac(2, 10),
                           value |-> Frac(5, 100)],
     sigma_slider     |-> [min |-> Frac(1, 10), max |-> R(1),
                           value |-> Frac(2, 10)],
     num_paths_slider |-> [min |-> R(1000), max |-> R(50000),
                           value |-> R(10000)]]

\* line 54: st.radio("Option Type", ["call", "put"]); the first is preselected
RadioOptions == <<"call", "put">>

\* a widget with a key yields the session's value for the key, its own
\* initial value on the first run
WidgetValue(ss, key, initial) ==
    IF key \in DOMAIN ss THEN ss[key] ELSE initial

\* the positions a slider can be dragged to
SliderPositions(key) ==
    {Sliders[key].min, Sliders[key].value, Sliders[key].max}

\* reset_parameters resetting the maturity to zero
ResetWithZeroMaturity(ss) ==
    LET s1 == Assign(ss, "S_slider", R(100))
        s2 == Assign(s1, "K_slider", R(100))
        s3 == Assign(s2, "T_slider", R(0))
        s4 == Assign(s3, "r_slider", Frac(5, 100))
        s5 == Assign(s4, "sigma_slider", Frac(2, 10))
        s6 == Assign(s5, "option_type_radio", "call")
    IN  Assign(s6, "num_paths_slider", R(10000))

\* reset_parameters leaving the option kind as it is
ResetWithoutKind(ss) ==
    LET s1 == Assign(ss, "S_slider", R(100))
        s2 == Assign(s1, "K_slider", R(100))
        s3 == Assign(s2, "T_slider", R(1))
        s4 == Assign(s3, "r_slider", Frac(5, 100))
        s5 == Assign(s4, "sigma_slider", Frac(2, 10))
    IN  Assign(s5, "num_paths_slider", R(10000))

\* lines 8-15
reset_parameters(ss) ==
    LET s1 == Assign(ss, "S_slider", R(100))
        s2 == Assign(s1, "K_slider", R(100))
        s3 == Assign(s2, "T_slider", R(1))
        s4 == Assign(s3, "r_slider", Frac(5, 100))
        s5 == Assign(s4, "sigma_slider", Frac(2, 10))
        s6 == Assign(s5, "option_type_radio", "call")
    IN  Assign(s6, "num_paths_slider", R(10000))

EngineIdle ==
    /\ IdlePaths /\ IdleResults
    /\ twin = NoTwin
    /\ rng = [seed |-> [n \in 0..(RngPeriod - 1) |-> 0], pos |-> 0]

\* lines 47-58 and 104: one run of the script up to the call of the
\* pricer: every widget registers or reads its key, and the values read
\* are the arguments of the call.  The call draws 1000 samples or more;
\* what it computes is followed under SpecPricer and SpecScript.
RunScript ==
    /\ pc = "rerun"
    /\ LET ss1 == Assign(session_state, "S_slider",
                    WidgetValue(session_state, "S_slider",
                                Sliders.S_slider.value))
           ss2 == Assign(ss1, "K_slider",
                    WidgetValue(session_state, "K_slider",
                                Sliders.K_slider.value))
           ss3 == Assign(ss2, "T_slider",
                    WidgetValue(session_state, "T_slider",
                                Sliders.T_slider.value))
           ss4 == Assign(ss3, "r_slider",
                    WidgetValue(session_state, "r_slider",
                                Sliders.r_slider.value))
           ss5 == Assign(ss4, "sigma_slider",
                    WidgetValue(session_state, "sigma_slider",
                                Sliders.sigma_slider.value))
           ss6 == Assign(ss5, "option_type_radio",
                    WidgetValue(session_state, "option_type_radio",
                                RadioOptions[1]))
           ss7 == Assign(ss6, "num_paths_slider",
                    WidgetValue(session_state, "num_paths_slider",
                                Sliders.num_paths_slider.value))
       IN  /\ session_state' = ss7
           /\ S' = ss7["S_slider"]
           /\ K' = ss7["K_slider"]
           /\ T' = ss7["T_slider"]
           /\ r' = ss7["r_slider"]
           /\ sigma' = ss7["sigma_slider"]
           /\ option_type' = ss7["option_type_radio"]
           /\ num_paths' = ss7["num_paths_slider"]
    /\ pc' = "shown"
    /\ UNCHANGED <<show_sample_paths, event, rng, price, S_T, payoff,
                   num_steps, num_sample_paths, dt, paths, i, err, twin>>

AppUnchanged ==
    UNCHANGED <<S, K, T, r, sigma, option_type, num_paths, rng, price, S_T,
                payoff, num_steps, num_sample_paths, dt, paths, i, err, twin>>

\* the user drags a slider; the script is run again
MoveSlider ==
    /\ pc = "shown"
    /\ \E key \in DOMAIN Sliders : \E v \in SliderPositions(key) :
          /\ v # session_state[key]
          /\ session_state' = Assign(session_state, key, v)
    /\ event' = "slider"
    /\ pc' = "rerun"
    /\ UNCHANGED show_sample_paths
    /\ AppUnchanged

\* the user picks the other option kind
PickKind ==
    /\ pc = "shown"
    /\ \E n \in 1..Len(RadioOptions) :
          /\ RadioOptions[n] # session_state["option_type_radio"]
          /\ session_state' =
                Assign(session_state, "option_type_radio", RadioOptions[n])
    /\ event' = "radio"
    /\ pc' = "rerun"
    /\ UNCHANGED show_sample_paths
    /\ AppUnchanged

\* line 58: the user ticks or unticks the checkbox
ToggleSamplePaths ==
    /\ pc = "shown"
    /\ show_sample_paths' = ~show_sample_paths
    /\ event' = "checkbox"
    /\ pc' = "rerun"
    /\ UNCHANGED session_state
    /\ AppUnchanged

\* line 47: the button runs its on_click callback, then the script
ClickReset ==
    /\ pc = "shown"
    /\ session_state' = reset_parameters(session_state)
    /\ event' = "reset"
    /\ pc' = "rerun"
    /\ UNCHANGED show_sample_paths
    /\ AppUnchanged

\* a new session: nothing in st.session_state, the script about to run
AppInit ==
    /\ session_state = NoSession
    /\ show_sample_paths = FALSE
    /\ event = "none"
    /\ pc = "rerun"
    /\ S = R(0) /\ K = R(0) /\ T = R(0) /\ r = R(0) /\ sigma = R(0)
    /\ option_type = "" /\ num_paths = R(0)
    /\ EngineIdle

AppNext ==
    \/ RunScript
    \/ MoveSlider
    \/ PickKind
    \/ ToggleSamplePaths
    \/ ClickReset

SpecApp == AppInit /\ [][AppNext]_vars

---------------------------------------------------------------------------
(* Claims about the sidebar, under SpecApp *)

SevenKeys ==
    {"S_slider", "K_slider", "T_slider", "r_slider", "sigma_slider",
     "option_type_radio", "num_paths_slider"}

IsDefaults(ss) ==
    /\ DOMAIN ss = SevenKeys
    /\ ss["S_slider"].num = 100 /\ ss["S_slider"].den = 1
    /\ ss["K_slider"].num = 100 /\ ss["K_slider"].den = 1
    /\ ss["T_slider"].num = 1 /\ ss["T_slider"].den = 1
    /\ ss["r_slider"].num = 1 /\ ss["r_slider"].den = 20
    /\ ss["sigma_slider"].num = 1 /\ ss["sigma_slider"].den = 5
    /\ ss["option_type_radio"] = "call"
    /\ ss["num_paths_slider"].num = 10000 /\ ss["num_paths_slider"].den = 1

AfterReset == event = "reset" => IsDefaults(session_state)

ResetStep ==
    (event' = "reset" /\ pc' = "rerun") =>
        /\ IsDefaults(session_state')
        /\ DOMAIN session_state' = DOMAIN session_state
        /\ show_sample_paths' = show_sample_paths
        /\ event = "reset" => session_state' = session_state

\* C8: whatever the sliders and the radio were set to, a reset leaves the
\* seven parameters at S=100, K=100, T=1, r=0.05, sigma=0.2, kind=call,
\* N=10000; a reset after a reset changes nothing; a reset adds no key and
\* leaves the checkbox alone.
C8_ResetToDefaults == []AfterReset /\ [][ResetStep]_vars

\* a reset taken while the last run still used non-default parameters
C8_Witness ==
    /\ event = "reset" /\ pc = "rerun"
    /\ S # R(100) /\ option_type = "put" /\ num_paths # R(10000)
    /\ show_sample_paths
    /\ IsDefaults(session_state)

Between(lo, x, hi) == RLeq(lo, x) /\ RLeq(x, hi)

\* C9: at every call of the pricer the arguments lie in the ranges of the
\* widgets, S, K in [50,150], T in [0.1,5], r in [0,0.2], sigma in [0.1,1],
\* N in [1000,50000], kind call or put; so S, K, T, sigma > 0 and N >= 1.
C9_ArgumentsInRange ==
    pc = "shown" =>
        /\ Between(R(50), S, R(150))
        /\ Between(R(50), K, R(150))
        /\ Between(Frac(1, 10), T, R(5))
        /\ Between(R(0), r, Frac(2, 10))
        /\ Between(Frac(1, 10), sigma, R(1))
        /\ Between(R(1000), num_paths, R(50000))
        /\ option_type \in {"call", "put"}
        /\ ValidParams

\* a call made right after a reset that followed non-default settings, and
\* a call at the ends of the ranges
C9_Witness ==
    /\ pc = "shown"
    /\ T = Frac(1, 10) /\ sigma = R(1) /\ num_paths = R(50000)
    /\ S = R(150) /\ K = R(50) /\ r = R(0)
    /\ option_type = "put"

---------------------------------------------------------------------------
(* SpecScript: the body of the interactive tab (lines 104-129) run twice   *)
(* from the same generator state.  The second run, twin, shares S, T, r,   *)
(* sigma, the step and path counts and the checkbox with the first, and    *)
(* has its own K, option kind and num_paths.  T and num_steps are equal    *)
(* squares, so that both T and dt = T / num_steps have exact roots.        *)

\* line 120: if show_sample_paths
EnterPaths ==
    /\ pc = "returned"
    /\ show_sample_paths
    /\ pc' = "paths"
    /\ UNCHANGED <<session_state, show_sample_paths, event,
                   S, K, T, r, sigma, option_type, num_paths, rng,
                   price, S_T, payoff, num_steps, num_sample_paths,
                   dt, paths, i, err, twin>>

\* line 139: else, no grid
SkipPaths ==
    /\ pc = "returned"
    /\ ~show_sample_paths
    /\ pc' = "done"
    /\ UNCHANGED <<session_state, show_sample_paths, event,
                   S, K, T, r, sigma, option_type, num_paths, rng,
                   price, S_T, payoff, num_steps, num_sample_paths,
                   dt, paths, i, err, twin>>

\* lines 127-129: the loop from row `row` to its end
RECURSIVE LoopFrom(_, _, _, _, _, _, _, _)
LoopFrom(grid, row, steps, rr, sg, d, n, g) ==
    IF row > steps THEN [paths |-> grid, rng |-> g]
    ELSE LET it == IteratePaths(grid, row, rr, sg, d, n, g)
         IN  LoopFrom(it.paths, row + 1, steps, rr, sg, d, n, it.rng)

\* lines 104-129 for the twin, from the generator state g
ScriptBody(k, kind, n, g) ==
    LET call  == monte_carlo_option_price(S, k, T, r, sigma, kind, n, g)
        setup == SetupPaths(S, T, num_steps, num_sample_paths)
        loop  == LoopFrom(setup.paths, 1, num_steps, r, sigma, setup.dt,
                          num_sample_paths, call.rng)
    IN  IF call.err # "none"
        THEN [pc |-> "raised", K |-> k, option_type |-> kind,
              num_paths |-> n, price |-> NaN, paths |-> NoGrid,
              rng |-> call.rng]
        ELSE IF ~show_sample_paths
        THEN [pc |-> "done", K |-> k, option_type |-> kind,
              num_paths |-> n, price |-> call.price, paths |-> NoGrid,
              rng |-> call.rng]
        ELSE IF setup.err # "none"
        THEN [pc |-> "raised", K |-> k, option_type |-> kind,
              num_paths |-> n, price |-> call.price, paths |-> NoGrid,
              rng |-> call.rng]
        ELSE [pc |-> "done", K |-> k, option_type |-> kind,
              num_paths |-> n, price |-> call.price, paths |-> loop.paths,
              rng |-> loop.rng]

\* the generator state the first run started from
StartRng == [rng EXCEPT !.pos = 0]

\* the twin runs once the first run is over
RunTwin ==
    /\ pc = "done"
    /\ twin.pc = "ready"
    /\ twin' = ScriptBody(twin.K, twin.option_type, twin.num_paths, StartRng)
    /\ UNCHANGED <<session_state, show_sample_paths, event, pc,
                   S, K, T, r, sigma, option_type, num_paths, rng,
                   price, S_T, payoff, num_steps, num_sample_paths,
                   dt, paths, i, err>>

ScriptK == {R(2), R(5)}

ScriptKinds == {"call", "put"}

ScriptN == {R(n) : n \in 1..MaxN}

ScriptInit ==
    /\ session_state = NoSession
    /\ event = "none"
    /\ show_sample_paths \in BOOLEAN
    /\ IdleResults
    /\ pc = "call"
    /\ S = R(3) /\ r = R(2) /\ sigma = R(2)
    /\ K = R(2) /\ option_type = "call"
    /\ num_paths \in ScriptN
    /\ num_steps \in {n * n : n \in 1..MaxStepsRoot}
    /\ num_sample_paths \in 1..MaxPaths
    /\ T = R(num_steps)
    /\ dt = R(0) /\ paths = NoGrid /\ i = 0
    /\ rng \in [seed : Seeds, pos : {0}]
    /\ twin \in [pc : {"ready"}, K : ScriptK, option_type : ScriptKinds,
                 num_paths : ScriptN, price : {R(0)}, paths : {NoGrid},
                 rng : {[seed |-> rng.seed, pos |-> 0]}]

ScriptNext ==
    \/ CallPricer
    \/ EnterPaths
    \/ SkipPaths
    \/ BeginPaths
    \/ StepPaths
    \/ RunTwin

SpecScript == ScriptInit /\ [][ScriptNext]_vars

---------------------------------------------------------------------------
(* Claim about the two routines, under SpecScript *)

BothDone == pc = "done" /\ twin.pc = "done" /\ show_sample_paths

\* C7 as stated: two runs from the same generator state that differ only
\* in the pricer's path count N produce the same path grid.
C7_GridIndependentOfN ==
    (BothDone /\ twin.K = K /\ twin.option_type = option_type) =>
        twin.paths = paths

\* C7 amended: the two routines share the process-wide generator and
\* nothing else: the path simulation draws the outputs that follow the N
\* consumed by the pricer.  Two runs from the same generator state with
\* the same N produce the same grid, whatever their K and option kind.
C7_GridDependsOnNOnly ==
    BothDone =>
        /\ rng.pos = num_paths.num + num_steps * num_sample_paths
        /\ twin.rng.pos = twin.num_paths.num + num_steps * num_sample_paths
        /\ twin.num_paths = num_paths => twin.paths = paths

\* two finished runs with the same N, another K and the other kind, with
\* different estimates and the same grid
C7_Witness ==
    /\ BothDone
    /\ twin.num_paths = num_paths
    /\ twin.K # K /\ twin.option_type # option_type
    /\ twin.price # price
    /\ twin.paths = paths
    /\ paths[num_steps][1] # S

=============================================================================
